---- MODULE Spec2Model ----
(***************************************************************************)
(* Model of crypto_assets/exchange/models.py: the Exchange, Coin,          *)
(* Transaction and Importer models, the cascading foreign keys between     *)
(* them, the transactional on-commit trigger of Importer.save, the price   *)
(* look-up through Exchange.get_platform with the cached properties of a   *)
(* Transaction instance, and the derived financial properties.             *)
(*                                                                         *)
(* Python's None is the empty tuple <<>>, a present value v is <<v>>.      *)
(* Decimal fields are fixed-point numerators over Scale.                   *)
(* Strings that the code transforms are sequences of one-character strings.*)
(***************************************************************************)
EXTENDS Integers, Sequences, FiniteSets, TLC

VARIABLES
    db,             \* the database as the current connection sees it
    nextPk,         \* per-table AutoField sequences
    atomicStack,    \* open atomic blocks of the caller, outermost first
    run_on_commit,  \* connection.run_on_commit: registered callbacks
    inst,           \* in-memory Importer instances
    saves,          \* history: one record per call of Importer.save
    jobs,           \* history: calls of tasks.process_importer.delay
    lastCascade,    \* history: the dependent rows the last delete removed
    exchanges,      \* the Exchange rows, in primary key order
    nextExchangePk, \* the AutoField sequence of Exchange
    quote,          \* what each platform reports now for the coin and market
    t,              \* a Transaction instance (its fields do not change)
    cache,          \* the instance's cached_property values
    fetches,        \* history: platform get_price calls made for the instance
    snapshot,       \* history: the first price fetched, with its surroundings
    lastCall,       \* history: the last call made on a platform
    lastOp,         \* history: the last call of Exchange.price / cache_all_prices
    lastRead,       \* history: the last property read of the instance
    pair,           \* two Transaction instances whose ids are constructed
    ids             \* what construct_platform_id gave for each of the two

dbVars == <<db, nextPk, atomicStack, run_on_commit, inst, saves, jobs, lastCascade>>

priceVars == <<exchanges, nextExchangePk, quote, t, cache, fetches, snapshot,
               lastCall, lastOp, lastRead>>

idVars == <<pair, ids>>

vars == <<dbVars, priceVars, idVars>>

None == <<>>
Some(v) == <<v>>
Val(o) == o[1]

\* ---------------------------------------------------------------- bounds
MaxProfiles == 1
MaxCoins == 1
MaxTx == 1
MaxInst == 1
MaxDepth == 1
MaxSaves == 2

MaxExchanges == 2
MaxFetches == 2
\* The fields carry ten decimal places; the model keeps this many, so that
\* the products stay within the checker's integers.
DecimalPlaces == 1

\* Decimal fields hold numerators over Scale.
Scale == 10 ^ DecimalPlaces

ProfileIds == 1..MaxProfiles
InstIds == 1..MaxInst

\* ------------------------------------------------- the database and the ORM
\* Importer.profile, Transaction.coin and Transaction.profile are foreign
\* keys: a row stores the primary key of the row it references.
EmptyDb == [profiles |-> {}, coins |-> {}, transactions |-> {}, importers |-> {}]

\* The state the transaction machinery works on, as one record.
World == [db |-> db, nextPk |-> nextPk, stack |-> atomicStack,
          hooks |-> run_on_commit, inst |-> inst, saves |-> saves, jobs |-> jobs]

SetWorld(w) ==
    /\ db' = w.db
    /\ nextPk' = w.nextPk
    /\ atomicStack' = w.stack
    /\ run_on_commit' = w.hooks
    /\ inst' = w.inst
    /\ saves' = w.saves
    /\ jobs' = w.jobs
    /\ UNCHANGED <<lastCascade, priceVars, idVars>>

\* connection.savepoint_ids: the ids of the savepoints that are open.
SavepointIds(w) == {Val(w.stack[k].sid) : k \in {j \in 1..Len(w.stack) : w.stack[j].sid # None}}

\* tasks.process_importer.delay(self.pk), the body of the lambda of
\* Importer.save: self.pk is read when the lambda runs.
ProcessImporterDelay(w, func) ==
    [w EXCEPT !.jobs = Append(@, [arg |-> w.inst[func.inst].pk,
                                  save |-> func.save,
                                  depth |-> Len(w.stack),
                                  written |-> w.saves[func.save].written])]

RECURSIVE RunHooks(_, _)
RunHooks(w, hs) ==
    IF hs = <<>> THEN w ELSE RunHooks(ProcessImporterDelay(w, Head(hs).func), Tail(hs))

\* connection.savepoint(): a savepoint id that nothing alive refers to (the
\* connection numbers its savepoints; only distinctness matters).
UsedSids(w) ==
    SavepointIds(w)
    \cup UNION {w.hooks[k].sids : k \in DOMAIN w.hooks}
    \cup UNION {w.saves[k].sids : k \in {j \in DOMAIN w.saves : w.saves[j].outcome = "open"}}

FreshSid(w) == CHOOSE n \in 1..(Cardinality(UsedSids(w)) + 1) :
                   /\ n \notin UsedSids(w)
                   /\ \A m \in 1..(n - 1) : m \in UsedSids(w)

\* transaction.atomic().__enter__: the outermost block opens a transaction,
\* an inner block takes a savepoint.
AtomicEnter(w) ==
    IF w.stack = <<>>
    THEN [w EXCEPT !.stack = <<[sid |-> None, snap |-> w.db]>>]
    ELSE [w EXCEPT !.stack = Append(@, [sid |-> Some(FreshSid(w)), snap |-> w.db])]

\* Mutant: the callback is called where it is registered.
OnCommitImmediate(w, func) == ProcessImporterDelay(w, func)

\* transaction.on_commit(func): inside an atomic block the callback is
\* queued with the savepoints open at that moment; in autocommit it runs now.
OnCommit(w, func) ==
    IF w.stack # <<>>
    THEN [w EXCEPT !.hooks = Append(@, [sids |-> SavepointIds(w), func |-> func])]
    ELSE ProcessImporterDelay(w, func)

\* History: the fate of the saves whose transaction is still open.
Settle(ss, sidset, all, outcome) ==
    [k \in DOMAIN ss |->
        IF ss[k].outcome = "open" /\ (all \/ ss[k].sids \cap sidset # {})
        THEN [ss[k] EXCEPT !.outcome = outcome, !.sids = {}] ELSE ss[k]]

SelectHooks(hs, sid) == SelectSeq(hs, LAMBDA h : sid \notin h.sids)

\* Mutant: a rollback leaves the queued callbacks in place.
AtomicExitKeepsHooks(w, exc) ==
    LET n == Len(w.stack)
        top == w.stack[n]
        rest == SubSeq(w.stack, 1, n - 1)
    IN  IF ~exc
        THEN IF rest = <<>>
             THEN RunHooks([w EXCEPT !.stack = <<>>, !.hooks = <<>>,
                                     !.saves = Settle(@, {}, TRUE, "committed")],
                           w.hooks)
             ELSE [w EXCEPT !.stack = rest]
        ELSE IF rest = <<>>
             THEN [w EXCEPT !.stack = <<>>, !.db = top.snap,
                            !.saves = Settle(@, {}, TRUE, "rolledback")]
             ELSE [w EXCEPT !.stack = rest, !.db = top.snap,
                            !.saves = Settle(@, {Val(top.sid)}, FALSE, "rolledback")]

\* transaction.atomic().__exit__: commit or release on a normal exit, roll
\* back (to the savepoint) on an exception. The callbacks run after the
\* outermost commit; a rollback discards those queued inside it.
AtomicExit(w, exc) ==
    LET n == Len(w.stack)
        top == w.stack[n]
        rest == SubSeq(w.stack, 1, n - 1)
    IN  IF ~exc
        THEN IF rest = <<>>
             THEN RunHooks([w EXCEPT !.stack = <<>>, !.hooks = <<>>,
                                     !.saves = Settle(@, {}, TRUE, "committed")],
                           w.hooks)
             ELSE [w EXCEPT !.stack = rest]
        ELSE IF rest = <<>>
             THEN [w EXCEPT !.stack = <<>>, !.db = top.snap, !.hooks = <<>>,
                            !.saves = Settle(@, {}, TRUE, "rolledback")]
             ELSE [w EXCEPT !.stack = rest, !.db = top.snap,
                            !.hooks = SelectHooks(@, Val(top.sid)),
                            !.saves = Settle(@, {Val(top.sid)}, FALSE, "rolledback")]

ImporterRow(w, pk) == {r \in w.db.importers : r.pk = pk}

\* models.Model.save of an Importer: an instance without a key, or whose
\* key has no row, is inserted (the AutoField assigns the key); otherwise
\* its row is updated.
SuperSave(w, i, k) ==
    LET me == w.inst[i]
        fresh == me.pk = None
        pk == IF fresh THEN w.nextPk.importer ELSE Val(me.pk)
        created == ImporterRow(w, pk) = {}
        row == [pk |-> pk, profile |-> me.profile]
    IN  [w EXCEPT !.db.importers = (@ \ ImporterRow(w, pk)) \cup {row},
                  !.nextPk.importer = IF fresh THEN @ + 1 ELSE @,
                  !.inst[i].pk = Some(pk),
                  !.saves[k].written = TRUE,
                  !.saves[k].created = created,
                  !.saves[k].pk = Some(pk)]

\* Importer.save: with transaction.atomic(): on_commit(lambda ...); super().save()
SaveBody(w, i, k, fails) ==
    LET w1 == AtomicEnter(w)
        w2 == OnCommit(w1, [inst |-> i, save |-> k])
        w3 == IF fails THEN w2 ELSE SuperSave(w2, i, k)
    IN  AtomicExit([w3 EXCEPT !.saves[k].sids = SavepointIds(w1)], fails)

\* History: a call of Importer.save on instance i, made `depth` atomic blocks
\* deep. rekeyed: the instance's key was changed before the save settled.
NewSave(i) == [inst |-> i, depth |-> Len(atomicStack), written |-> FALSE,
               created |-> FALSE, pk |-> None, sids |-> {}, rekeyed |-> FALSE,
               outcome |-> "open"]

\* A call of Importer.save on instance i. The underlying save raises when
\* `raises` (a validation or database error) or when the profile is gone.
ImporterSave(i, raises) ==
    /\ Len(saves) < MaxSaves
    /\ LET k == Len(saves) + 1
           fails == raises \/ inst[i].profile \notin db.profiles
           w == [World EXCEPT !.saves = Append(@, NewSave(i))]
       IN  SetWorld(SaveBody(w, i, k, fails))

\* instance.delete() of an Importer: the row goes and the instance's key
\* is set to None.
ImporterDelete(i) ==
    /\ inst[i].pk # None
    /\ db' = [db EXCEPT !.importers = {r \in @ : r.pk # Val(inst[i].pk)}]
    /\ inst' = [inst EXCEPT ![i].pk = None]
    /\ saves' = [k \in DOMAIN saves |->
                    IF saves[k].inst = i /\ saves[k].outcome = "open"
                    THEN [saves[k] EXCEPT !.rekeyed = TRUE] ELSE saves[k]]
    /\ UNCHANGED <<nextPk, atomicStack, run_on_commit, jobs, lastCascade, priceVars, idVars>>

\* A caller's own `with transaction.atomic():` around the operations.
CallerAtomicEnter ==
    /\ Len(atomicStack) < MaxDepth
    /\ SetWorld(AtomicEnter(World))

CallerAtomicExit(exc) ==
    /\ atomicStack # <<>>
    /\ SetWorld(AtomicExit(World, exc))

\* ------------------------------------------------ rows and cascading deletes
CreateProfile ==
    /\ nextPk.profile <= MaxProfiles
    /\ db' = [db EXCEPT !.profiles = @ \cup {nextPk.profile}]
    /\ nextPk' = [nextPk EXCEPT !.profile = @ + 1]
    /\ UNCHANGED <<atomicStack, run_on_commit, inst, saves, jobs, lastCascade, priceVars, idVars>>

CreateCoin ==
    /\ nextPk.coin <= MaxCoins
    /\ db' = [db EXCEPT !.coins = @ \cup {nextPk.coin}]
    /\ nextPk' = [nextPk EXCEPT !.coin = @ + 1]
    /\ UNCHANGED <<atomicStack, run_on_commit, inst, saves, jobs, lastCascade, priceVars, idVars>>

\* The foreign key constraints refuse a row whose coin or profile is absent.
CreateTransaction(c, p) ==
    /\ nextPk.transaction <= MaxTx
    /\ c \in db.coins
    /\ p \in db.profiles
    /\ db' = [db EXCEPT !.transactions =
                  @ \cup {[pk |-> nextPk.transaction, coin |-> c, profile |-> p]}]
    /\ nextPk' = [nextPk EXCEPT !.transaction = @ + 1]
    /\ UNCHANGED <<atomicStack, run_on_commit, inst, saves, jobs, lastCascade, priceVars, idVars>>

DeleteTransaction(pk) ==
    /\ \E r \in db.transactions : r.pk = pk
    /\ db' = [db EXCEPT !.transactions = {r \in @ : r.pk # pk}]
    /\ UNCHANGED <<nextPk, atomicStack, run_on_commit, inst, saves, jobs, lastCascade, priceVars, idVars>>

\* Mutant: the coin goes and its transactions stay.
CascadeCoinKeepsRows(d, c) == [d EXCEPT !.coins = @ \ {c}]

\* on_delete=models.CASCADE of Transaction.coin
CascadeCoin(d, c) ==
    [d EXCEPT !.coins = @ \ {c},
              !.transactions = {r \in @ : r.coin # c}]

\* on_delete=models.CASCADE of Transaction.profile and Importer.profile
CascadeProfile(d, p) ==
    [d EXCEPT !.profiles = @ \ {p},
              !.transactions = {r \in @ : r.profile # p},
              !.importers = {r \in @ : r.profile # p}]

\* History: what a delete took with it.
NoCascade == [kind |-> "none", transactions |-> {}, importers |-> {}]

Removed(before, after) ==
    [kind |-> IF before.coins # after.coins THEN "coin" ELSE "profile",
     transactions |-> before.transactions \ after.transactions,
     importers |-> before.importers \ after.importers]

DeleteCoin(c) ==
    /\ c \in db.coins
    /\ db' = CascadeCoin(db, c)
    /\ lastCascade' = Removed(db, db')
    /\ UNCHANGED <<nextPk, atomicStack, run_on_commit, inst, saves, jobs, priceVars, idVars>>

DeleteProfile(p) ==
    /\ p \in db.profiles
    /\ db' = CascadeProfile(db, p)
    /\ lastCascade' = Removed(db, db')
    /\ UNCHANGED <<nextPk, atomicStack, run_on_commit, inst, saves, jobs, priceVars, idVars>>

\* ------------------------------------------------------- values and results
\* What a property read or a call gives: an int, a Decimal (n over Scale), a
\* float of two decimals (n over 100), a string (s), None, or an exception.
IntR(n) == [kind |-> "int", n |-> n, s |-> <<>>, msg |-> ""]
DecR(n) == [kind |-> "dec", n |-> n, s |-> <<>>, msg |-> ""]
Float2R(n) == [kind |-> "float2", n |-> n, s |-> <<>>, msg |-> ""]
StrR(s) == [kind |-> "str", n |-> 0, s |-> s, msg |-> ""]
NoneR == [kind |-> "none", n |-> 0, s |-> <<>>, msg |-> ""]
ErrR(msg) == [kind |-> "error", n |-> 0, s |-> <<>>, msg |-> msg]
IsErr(r) == r.kind = "error"

Abs(n) == IF n < 0 THEN -n ELSE n

\* int(x) of Python for x = num / den, den > 0: truncation toward zero.
Trunc(num, den) == IF num >= 0 THEN num \div den ELSE -((-num) \div den)

\* round(x, ...) of Python for x = num / den: to the nearest, ties to even.
RoundHalfEven(num, den) ==
    LET d == Abs(den)
        a == Abs(num)
        q == a \div d
        r == a % d
        m == IF 2 * r > d \/ (2 * r = d /\ q % 2 = 1) THEN q + 1 ELSE q
    IN  IF (num < 0) = (den < 0) THEN m ELSE -m

DigitChars == <<"0", "1", "2", "3", "4", "5", "6", "7", "8", "9">>

RECURSIVE Digits(_)
\* str(n) for n >= 0
Digits(n) == IF n < 10 THEN <<DigitChars[n + 1]>>
             ELSE Digits(n \div 10) \o <<DigitChars[(n % 10) + 1]>>

RECURSIVE Group3(_)
\* the digits of n >= 0 with a comma before every group of three
Group3(n) ==
    IF n < 1000 THEN Digits(n)
    ELSE LET low == n % 1000
             pad == IF low < 10 THEN <<"0", "0">> ELSE IF low < 100 THEN <<"0">> ELSE <<>>
         IN  Group3(n \div 1000) \o <<",">> \o pad \o Digits(low)

\* f"{n:,}"
Commas(n) == IF n < 0 THEN <<"-">> \o Group3(-n) ELSE Group3(n)

\* ---------------------------------------------------------------- Exchange
PlatformNames == {"wallex", "bitpin"}
ExchangeNames == PlatformNames \cup {"kraken"}
QuoteValues == {None, Some(0), Some(3 * Scale), Some(2000 * Scale)}

\* The prices each platform goes through.
QuotesOf(p) == IF p = "wallex" THEN {None, Some(3 * Scale)} ELSE {Some(0), Some(2000 * Scale)}

Range(f) == {f[k] : k \in DOMAIN f}

Oldest(es) == CHOOSE e \in Range(es) : \A f \in Range(es) : e.pk <= f.pk

\* History: the row stored last, whatever the look-up does.
Newest(es) == CHOOSE e \in Range(es) : \A f \in Range(es) : f.pk <= e.pk

\* Mutant: any name that is not wallex is served by Bitpin.
GetPlatformDefaultsToBitpin(name) ==
    IF name = "wallex" THEN StrR(<<"wallex">>) ELSE StrR(<<"bitpin">>)

\* Exchange.get_platform: the platform of the name, or the exception.
GetPlatform(name) ==
    IF name = "wallex" THEN StrR(<<"wallex">>)
    ELSE IF name = "bitpin" THEN StrR(<<"bitpin">>)
    ELSE ErrR("Exchange name is not valid")

\* A call on a platform object: Wallex().get_price(coin, market) and the like.
PlatformCall(w, platform, method, coin, market) ==
    [w EXCEPT !.lastCall = [platform |-> platform, method |-> method,
                            coin |-> coin, market |-> market]]

\* Exchange.price(coin, market): self.get_platform().get_price(coin, market)
ExchangePrice(w, e, coin, market) ==
    LET p == GetPlatform(e.name)
    IN  IF IsErr(p) THEN [w |-> w, r |-> p]
        ELSE [w |-> PlatformCall(w, p.s[1], "get_price", Some(coin), market),
              r |-> IF quote[p.s[1]] = None THEN NoneR ELSE DecR(Val(quote[p.s[1]]))]

\* Exchange.cache_all_prices: self.get_platform().cache_all_prices()
ExchangeCacheAllPrices(w, e) ==
    LET p == GetPlatform(e.name)
    IN  IF IsErr(p) THEN [w |-> w, r |-> p]
        ELSE [w |-> PlatformCall(w, p.s[1], "cache_all_prices", None, None),
              r |-> NoneR]

\* `x or 0` for the price a platform gave
OrZero(r) == IF r.kind = "none" THEN 0 ELSE r.n

\* Mutant: the oldest exchange is asked.
FirstExchange(es) == es[1]

\* Exchange.objects.last(): the row with the highest primary key.
LastExchange(es) == es[Len(es)]

\* Coin.price(market): the last Exchange is asked; with no Exchange at all
\* `exchange` is None and the attribute access raises.
CoinPrice(w, coin, market) ==
    IF exchanges = <<>> THEN [w |-> w, r |-> ErrR("AttributeError")]
    ELSE LET c == ExchangePrice(w, LastExchange(exchanges), coin, market)
         IN  IF IsErr(c.r) THEN c
             ELSE [c EXCEPT !.w.fetches = @ + 1,
                            !.w.snapshot =
                                IF @ = None
                                THEN Some([price |-> OrZero(c.r),
                                           asked |-> c.w.lastCall,
                                           stored |-> Len(exchanges),
                                           oldest |-> Oldest(exchanges).name,
                                           newest |-> Newest(exchanges).name,
                                           reported |-> quote[Newest(exchanges).name]])
                                ELSE @]

\* ------------------------------------------------------------- Transaction
\* Transaction.total_price: int(self.price * self.quantity)
TotalPrice(tx) == Trunc(tx.price * tx.quantity, Scale * Scale)

\* Mutant: current_price is a plain property, computed on every read.
CurrentPriceUncached(w) ==
    LET c == CoinPrice(w, t.coin, t.market)
    IN  IF IsErr(c.r) THEN c ELSE [w |-> c.w, r |-> DecR(OrZero(c.r))]

\* Transaction.current_price (cached_property): self.coin.price(self.market) or 0
CurrentPrice(w) ==
    IF w.cache.current_price # None
    THEN [w |-> w, r |-> DecR(Val(w.cache.current_price))]
    ELSE LET c == CoinPrice(w, t.coin, t.market)
         IN  IF IsErr(c.r) THEN c
             ELSE [w |-> [c.w EXCEPT !.cache.current_price = Some(OrZero(c.r))],
                   r |-> DecR(OrZero(c.r))]

\* Transaction.get_current_value (cached_property):
\* int(self.current_price * self.quantity)
GetCurrentValue(w) ==
    IF w.cache.get_current_value # None
    THEN [w |-> w, r |-> IntR(Val(w.cache.get_current_value))]
    ELSE LET c == CurrentPrice(w)
             v == Trunc(c.r.n * t.quantity, Scale * Scale)
         IN  IF IsErr(c.r) THEN c
             ELSE [w |-> [c.w EXCEPT !.cache.get_current_value = Some(v)], r |-> IntR(v)]

\* Transaction.get_current_price (cached_property)
GetCurrentPrice(w) ==
    IF w.cache.get_current_price # None
    THEN [w |-> w, r |-> Val(w.cache.get_current_price)]
    ELSE LET c == CurrentPrice(w)
             v == IF t.market = Some("irt")
                  THEN StrR(Commas(Trunc(c.r.n, Scale)))
                  ELSE Float2R(RoundHalfEven(c.r.n * 100, Scale))
         IN  IF IsErr(c.r) THEN c
             ELSE [w |-> [c.w EXCEPT !.cache.get_current_price = Some(v)], r |-> v]

\* Mutant: a sell is treated like a buy.
GetProfitOrLossOfAnyType(w) ==
    LET c == GetCurrentValue(w)
    IN  IF IsErr(c.r) THEN c
        ELSE [w |-> c.w, r |-> StrR(Commas(c.r.n - TotalPrice(t)))]

\* Transaction.get_profit_or_loss (property)
GetProfitOrLoss(w) ==
    IF t.type = "sell" THEN [w |-> w, r |-> StrR(<<"-">>)]
    ELSE LET c == GetCurrentValue(w)
         IN  IF IsErr(c.r) THEN c
             ELSE [w |-> c.w, r |-> StrR(Commas(c.r.n - TotalPrice(t)))]

\* Transaction.get_current_value_admin (property)
GetCurrentValueAdmin(w) ==
    LET c == GetCurrentValue(w)
    IN  IF IsErr(c.r) THEN c ELSE [w |-> c.w, r |-> StrR(Commas(c.r.n))]

\* a / b * 100 rounded to two decimals, as a float2; b = 0 raises.
PercentOf(a, b) ==
    IF b = 0 THEN ErrR("ZeroDivisionError") ELSE Float2R(RoundHalfEven(a * 10000, b))

\* Mutant: the guard looks at the price, not at the truncated total price.
GetChangePercentageGuardsPrice(w) ==
    IF t.type = "sell" THEN [w |-> w, r |-> StrR(<<"-">>)]
    ELSE IF t.price = 0 THEN [w |-> w, r |-> IntR(0)]
    ELSE LET c == GetCurrentValue(w)
             v == PercentOf(c.r.n - TotalPrice(t), TotalPrice(t))
         IN  IF IsErr(c.r) THEN c
             ELSE IF IsErr(v) THEN [w |-> c.w, r |-> v]
             ELSE [w |-> [c.w EXCEPT !.cache.get_change_percentage = Some(v)], r |-> v]

\* Transaction.get_change_percentage (cached_property)
GetChangePercentage(w) ==
    IF w.cache.get_change_percentage # None
    THEN [w |-> w, r |-> Val(w.cache.get_change_percentage)]
    ELSE IF t.type = "sell"
    THEN [w |-> [w EXCEPT !.cache.get_change_percentage = Some(StrR(<<"-">>))],
          r |-> StrR(<<"-">>)]
    ELSE IF TotalPrice(t) = 0
    THEN [w |-> [w EXCEPT !.cache.get_change_percentage = Some(IntR(0))], r |-> IntR(0)]
    ELSE LET c == GetCurrentValue(w)
             v == PercentOf(c.r.n - TotalPrice(t), TotalPrice(t))
         IN  IF IsErr(c.r) THEN c
             ELSE IF IsErr(v) THEN [w |-> c.w, r |-> v]
             ELSE [w |-> [c.w EXCEPT !.cache.get_change_percentage = Some(v)], r |-> v]

\* ------------------------------------------------------ actions on prices
NoCall == [platform |-> "", method |-> "", coin |-> None, market |-> None]

\* lastCall starts empty in every operation: it tells what this one called.
PriceWorld == [cache |-> cache, fetches |-> fetches, snapshot |-> snapshot,
               lastCall |-> NoCall]

SetPriceWorld(w) ==
    /\ cache' = w.cache
    /\ fetches' = w.fetches
    /\ snapshot' = w.snapshot
    /\ lastCall' = w.lastCall

\* A property read of the instance: the result, and whether the read went to
\* a platform.
Read(prop, c) ==
    /\ fetches < MaxFetches
    /\ SetPriceWorld(c.w)
    /\ lastRead' = [prop |-> prop, r |-> c.r, fetched |-> c.w.fetches # fetches]
    /\ UNCHANGED <<exchanges, nextExchangePk, quote, t, lastOp, dbVars, idVars>>

ReadCurrentPrice == Read("current_price", CurrentPrice(PriceWorld))
ReadGetCurrentValue == Read("get_current_value", GetCurrentValue(PriceWorld))
ReadGetCurrentPrice == Read("get_current_price", GetCurrentPrice(PriceWorld))
ReadGetCurrentValueAdmin == Read("get_current_value_admin", GetCurrentValueAdmin(PriceWorld))
ReadGetProfitOrLoss == Read("get_profit_or_loss", GetProfitOrLoss(PriceWorld))
ReadGetChangePercentage == Read("get_change_percentage", GetChangePercentage(PriceWorld))

\* A call of Exchange.price or Exchange.cache_all_prices on a stored exchange.
ExchangeOp(k, method) ==
    /\ k \in DOMAIN exchanges
    /\ LET c == IF method = "price"
                THEN ExchangePrice(PriceWorld, exchanges[k], t.coin, t.market)
                ELSE ExchangeCacheAllPrices(PriceWorld, exchanges[k])
       IN  /\ SetPriceWorld(c.w)
           /\ lastOp' = [name |-> exchanges[k].name, method |-> method, r |-> c.r]
    /\ UNCHANGED <<exchanges, nextExchangePk, quote, t, lastRead, dbVars, idVars>>

\* An Exchange row is stored; `choices` is not a database constraint, so any
\* name can be stored.
ExchangeCreate(name) ==
    /\ nextExchangePk <= MaxExchanges
    /\ exchanges' = Append(exchanges, [pk |-> nextExchangePk, name |-> name])
    /\ nextExchangePk' = nextExchangePk + 1
    /\ UNCHANGED <<quote, t, cache, fetches, snapshot, lastCall, lastOp, lastRead, dbVars, idVars>>

ExchangeDelete(k) ==
    /\ k \in DOMAIN exchanges
    /\ exchanges' = SubSeq(exchanges, 1, k - 1) \o SubSeq(exchanges, k + 1, Len(exchanges))
    /\ UNCHANGED <<nextExchangePk, quote, t, cache, fetches, snapshot, lastCall, lastOp, lastRead, dbVars, idVars>>

\* The market moves: a platform reports another price.
QuoteChange(p, v) ==
    /\ quote[p] # v
    /\ v \in QuotesOf(p)
    /\ quote' = [quote EXCEPT ![p] = v]
    /\ UNCHANGED <<exchanges, nextExchangePk, t, cache, fetches, snapshot, lastCall, lastOp, lastRead, dbVars, idVars>>

NoOp == [name |-> "", method |-> "", r |-> NoneR]
NoRead == [prop |-> "", r |-> NoneR, fetched |-> FALSE]
EmptyCache == [current_price |-> None, get_current_value |-> None,
               get_current_price |-> None, get_change_percentage |-> None]

TransactionTypes == {"buy", "sell"}
Markets == {Some("irt"), Some("usdt")}
PriceValues == {0, 4 * (Scale \div 10), 12345 * (Scale \div 10)}
QuantityValues == {-2 * Scale, 5 * (Scale \div 10), 2 * Scale}

\* --------------------------------------------------- construct_platform_id
Pad2(n) == IF n < 10 THEN <<"0">> \o Digits(n) ELSE Digits(n)

\* str(self.jdate): "None", or the date and time of a jdatetime
StrJdate(j) ==
    IF j = None THEN <<"N", "o", "n", "e">>
    ELSE LET d == Val(j)
         IN  Digits(d.year) \o <<"-">> \o Pad2(d.month) \o <<"-">> \o Pad2(d.day) \o <<" ">>
             \o Pad2(d.hour) \o <<":">> \o Pad2(d.minute) \o <<":">> \o Pad2(d.second)

RECURSIVE StripZeros(_)
StripZeros(ds) ==
    IF Len(ds) > 1 /\ ds[Len(ds)] = "0" THEN StripZeros(SubSeq(ds, 1, Len(ds) - 1)) ELSE ds

RECURSIVE PadLeft(_, _)
PadLeft(ds, n) == IF Len(ds) >= n THEN ds ELSE PadLeft(<<"0">> \o ds, n)

\* str(float(x)) for the Decimal x = n / Scale: the shortest digits that
\* give the float back, with at least one digit after the point. (The values
\* drawn here have few digits, so float(x) loses nothing and no exponent
\* is printed.)
StrFloat(n) ==
    LET a == Abs(n)
        frac == StripZeros(PadLeft(Digits(a % Scale), DecimalPlaces))
    IN  (IF n < 0 THEN <<"-">> ELSE <<>>) \o Digits(a \div Scale) \o <<".">> \o frac

UpperChars == <<"B", "C", "E", "H", "N", "T">>
LowerChars == <<"b", "c", "e", "h", "n", "t">>

LowerChar(c) == IF \E k \in DOMAIN UpperChars : UpperChars[k] = c
                THEN LowerChars[CHOOSE k \in DOMAIN UpperChars : UpperChars[k] = c]
                ELSE c

\* str.lower()
Lower(cs) == [k \in DOMAIN cs |-> LowerChar(cs[k])]

RECURSIVE Join(_)
\* "|".join(components), every component a str
Join(cs) == IF Len(cs) = 1 THEN Val(cs[1]) ELSE Val(cs[1]) \o <<"|">> \o Join(Tail(cs))

\* Transaction.construct_platform_id: None among the components makes
\* str.join raise.
ConstructPlatformId(tx) ==
    LET platform_id_components ==
            <<Some(StrJdate(tx.jdate)), Some(tx.code), tx.market, Some(tx.type),
              Some(StrFloat(tx.quantity)), Some(StrFloat(tx.price))>>
    IN  IF \E k \in DOMAIN platform_id_components : platform_id_components[k] = None
        THEN ErrR("TypeError")
        ELSE StrR(Lower(Join(platform_id_components)))

\* The property is read on both instances.
ReadConstructPlatformId ==
    /\ ids = <<>>
    /\ ids' = <<ConstructPlatformId(pair[1]), ConstructPlatformId(pair[2])>>
    /\ UNCHANGED <<pair, dbVars, priceVars>>

IdleId ==
    /\ pair = <<>>
    /\ ids = <<>>

IdlePrice ==
    /\ exchanges = <<>>
    /\ nextExchangePk = 1
    /\ quote = [p \in PlatformNames |-> None]
    /\ t = [type |-> "buy", price |-> 0, quantity |-> 0, market |-> None, coin |-> 1]
    /\ cache = EmptyCache
    /\ fetches = 0
    /\ snapshot = None
    /\ lastCall = NoCall
    /\ lastOp = NoOp
    /\ lastRead = NoRead

IdleDb ==
    /\ db = EmptyDb
    /\ nextPk = [profile |-> 1, coin |-> 1, transaction |-> 1, importer |-> 1]
    /\ atomicStack = <<>>
    /\ run_on_commit = <<>>
    /\ inst = [i \in InstIds |-> [pk |-> None, profile |-> 1]]
    /\ saves = <<>>
    /\ jobs = <<>>
    /\ lastCascade = NoCascade

\* Exchanges of any name are stored and deleted, and asked for prices.
InitExchange ==
    /\ IdleDb
    /\ IdleId
    /\ exchanges = <<>>
    /\ nextExchangePk = 1
    /\ quote = [p \in PlatformNames |-> IF p = "wallex" THEN None ELSE Some(0)]
    /\ t \in [type : {"buy"}, price : {12345 * (Scale \div 10)}, quantity : {2 * Scale},
              market : Markets, coin : {1}]
    /\ cache = EmptyCache
    /\ fetches = 0
    /\ snapshot = None
    /\ lastCall = NoCall
    /\ lastOp = NoOp
    /\ lastRead = NoRead

NextExchange ==
    \/ \E k \in 1..MaxExchanges, method \in {"price", "cache_all_prices"} : ExchangeOp(k, method)
    \/ \E name \in ExchangeNames : ExchangeCreate(name)
    \/ \E k \in 1..MaxExchanges : ExchangeDelete(k)
    \/ \E p \in PlatformNames, v \in QuoteValues : QuoteChange(p, v)

SpecExchange == InitExchange /\ [][NextExchange]_vars

\* One Transaction instance is read while exchanges come and go and the
\* market moves.
InitPrice ==
    /\ IdleDb
    /\ IdleId
    /\ exchanges = <<>>
    /\ nextExchangePk = 1
    /\ quote = [p \in PlatformNames |-> IF p = "wallex" THEN None ELSE Some(0)]
    /\ t \in [type : TransactionTypes, price : {12345 * (Scale \div 10)},
              quantity : {2 * Scale}, market : Markets, coin : {1}]
    /\ cache = EmptyCache
    /\ fetches = 0
    /\ snapshot = None
    /\ lastCall = NoCall
    /\ lastOp = NoOp
    /\ lastRead = NoRead

NextPrice ==
    \/ ReadCurrentPrice
    \/ ReadGetCurrentValue
    \/ ReadGetCurrentPrice
    \/ ReadGetCurrentValueAdmin
    \/ ReadGetProfitOrLoss
    \/ ReadGetChangePercentage
    \/ \E name \in ExchangeNames : ExchangeCreate(name)
    \/ \E k \in 1..MaxExchanges : ExchangeDelete(k)
    \/ \E p \in PlatformNames, v \in QuoteValues : QuoteChange(p, v)

SpecPrice == InitPrice /\ [][NextPrice]_vars

\* The derived properties of every kind of transaction, read against one
\* exchange at every price it may report.
InitProfit ==
    /\ IdleDb
    /\ IdleId
    /\ exchanges = <<[pk |-> 1, name |-> "wallex"]>>
    /\ nextExchangePk = 2
    /\ quote \in [PlatformNames -> QuoteValues]
    /\ quote["bitpin"] = None
    /\ t \in [type : TransactionTypes, price : PriceValues, quantity : QuantityValues,
              market : Markets, coin : {1}]
    /\ cache = EmptyCache
    /\ fetches = 0
    /\ snapshot = None
    /\ lastCall = NoCall
    /\ lastOp = NoOp
    /\ lastRead = NoRead

NextProfit ==
    \/ ReadCurrentPrice
    \/ ReadGetCurrentValue
    \/ ReadGetCurrentPrice
    \/ ReadGetCurrentValueAdmin
    \/ ReadGetProfitOrLoss
    \/ ReadGetChangePercentage

SpecProfit == InitProfit /\ [][NextProfit]_vars

\* Transactions the schema admits: jdate and market may be None, coin codes
\* are any distinct strings.
Jdates == {None,
           Some([year |-> 1402, month |-> 5, day |-> 1, hour |-> 10, minute |-> 30, second |-> 0]),
           Some([year |-> 1402, month |-> 5, day |-> 2, hour |-> 10, minute |-> 30, second |-> 0])}
CoinCodes == {<<"B", "T", "C">>, <<"b", "t", "c">>, <<"E", "T", "H">>}
MarketFields == {None, Some(<<"i", "r", "t">>), Some(<<"u", "s", "d", "t">>)}
TypeFields == {<<"b", "u", "y">>, <<"s", "e", "l", "l">>}

TransactionFields ==
    [jdate : Jdates, code : CoinCodes, market : MarketFields, type : TypeFields,
     quantity : {5 * (Scale \div 10), 2 * Scale}, price : {12345 * (Scale \div 10)}]

InitId ==
    /\ IdleDb
    /\ IdlePrice
    /\ pair \in TransactionFields \X TransactionFields
    /\ ids = <<>>

NextId == ReadConstructPlatformId

SpecId == InitId /\ [][NextId]_vars

\* ------------------------------------------------------------ database runs
InitDb ==
    /\ IdlePrice
    /\ IdleId
    /\ db = EmptyDb
    /\ nextPk = [profile |-> 1, coin |-> 1, transaction |-> 1, importer |-> 1]
    /\ atomicStack = <<>>
    /\ run_on_commit = <<>>
    /\ inst \in [InstIds -> [pk : {None}, profile : ProfileIds]]
    /\ saves = <<>>
    /\ jobs = <<>>
    /\ lastCascade = NoCascade

\* Rows of every table, created and deleted in any order.
NextCascade ==
    \/ CreateProfile
    \/ CreateCoin
    \/ \E c \in 1..MaxCoins, p \in ProfileIds : CreateTransaction(c, p)
    \/ \E pk \in 1..MaxTx : DeleteTransaction(pk)
    \/ \E c \in 1..MaxCoins : DeleteCoin(c)
    \/ \E p \in ProfileIds : DeleteProfile(p)
    \/ \E i \in InstIds : ImporterSave(i, FALSE)
    \/ \E i \in InstIds : ImporterDelete(i)

SpecCascade == InitDb /\ [][NextCascade]_vars

\* A database that holds the profiles already; the importers are uploads of
\* the first profile.
InitImporter ==
    /\ IdlePrice
    /\ IdleId
    /\ db = [EmptyDb EXCEPT !.profiles = ProfileIds]
    /\ nextPk = [profile |-> MaxProfiles + 1, coin |-> 1, transaction |-> 1, importer |-> 1]
    /\ atomicStack = <<>>
    /\ run_on_commit = <<>>
    /\ inst = [i \in InstIds |-> [pk |-> None, profile |-> CHOOSE p \in ProfileIds : \A q \in ProfileIds : p <= q]]
    /\ saves = <<>>
    /\ jobs = <<>>
    /\ lastCascade = NoCascade

\* Importers saved, re-saved and deleted inside or outside a caller's
\* atomic blocks.
NextImporter ==
    \/ \E i \in InstIds, raises \in BOOLEAN : ImporterSave(i, raises)
    \/ \E i \in InstIds : ImporterDelete(i)
    \/ CallerAtomicEnter
    \/ \E exc \in BOOLEAN : CallerAtomicExit(exc)

SpecImporter == InitImporter /\ [][NextImporter]_vars

\* ------------------------------------------------------------------ claims
JobsOf(k) == {j \in DOMAIN jobs : jobs[j].save = k}

\* C3: every stored Transaction references a Coin and a Profile that exist
\* and every stored Importer references a Profile that exists, whatever rows
\* were created and deleted; so a deleted Coin or Profile leaves no
\* transaction or importer of its own behind.
C3_CascadeIntegrity ==
    /\ \A r \in db.transactions : r.coin \in db.coins /\ r.profile \in db.profiles
    /\ \A r \in db.importers : r.profile \in db.profiles

\* A profile was deleted and took a transaction and an importer with it.
C3_Witness ==
    /\ lastCascade.kind = "profile"
    /\ lastCascade.transactions # {}
    /\ lastCascade.importers # {}

\* C1: process_importer.delay is called only with no transaction open, after
\* the save wrote its row and its outermost transaction committed; a save
\* whose transaction rolled back has no job.
C1_FiresAfterCommit ==
    /\ \A j \in DOMAIN jobs :
          /\ jobs[j].depth = 0
          /\ jobs[j].written
          /\ saves[jobs[j].save].outcome = "committed"
    /\ \A k \in DOMAIN saves : saves[k].outcome # "committed" => JobsOf(k) = {}

\* A save inside an enclosing atomic block got its job, and another save
\* that had written its row was rolled back.
C1_Witness ==
    /\ \E j \in DOMAIN jobs : saves[jobs[j].save].depth >= 1
    /\ \E k \in DOMAIN saves : saves[k].outcome = "rolledback" /\ saves[k].written

\* C7 as stated: every committed save has exactly one job, and the job of a
\* save that created its row carries the key that save assigned, never None.
C7_Original ==
    \A k \in DOMAIN saves :
        saves[k].outcome = "committed" =>
            /\ Cardinality(JobsOf(k)) = 1
            /\ \A j \in JobsOf(k) :
                  saves[k].created => jobs[j].arg # None /\ jobs[j].arg = saves[k].pk

\* C7 amended: every committed save has exactly one job; the job of a save
\* that created its row carries the key that save assigned, never None,
\* unless the instance's key was changed (instance.delete()) between that
\* save and the outermost commit.
C7_ExactlyOneJob ==
    \A k \in DOMAIN saves :
        saves[k].outcome = "committed" =>
            /\ Cardinality(JobsOf(k)) = 1
            /\ \A j \in JobsOf(k) :
                  (saves[k].created /\ ~saves[k].rekeyed) =>
                      jobs[j].arg # None /\ jobs[j].arg = saves[k].pk

\* A first save and a re-save of the same instance, both committed inside
\* one enclosing block, each with its job.
C7_Witness ==
    \E k1, k2 \in DOMAIN saves :
        /\ k1 < k2
        /\ saves[k1].inst = saves[k2].inst
        /\ saves[k1].created /\ ~saves[k2].created
        /\ saves[k1].depth >= 1
        /\ saves[k1].outcome = "committed" /\ saves[k2].outcome = "committed"
        /\ JobsOf(k1) # {} /\ JobsOf(k2) # {}

\* ------------------------------------------------- claims about prices
S2 == Scale * Scale

\* z is x truncated toward zero, for x = num / den with den > 0
IsTrunc(z, num, den) ==
    IF num >= 0 THEN z * den <= num /\ num < (z + 1) * den
                ELSE (z - 1) * den < num /\ num <= z * den

IsDigit(c) == \E k \in DOMAIN DigitChars : DigitChars[k] = c
DigitValue(c) == (CHOOSE k \in DOMAIN DigitChars : DigitChars[k] = c) - 1
Unsigned(cs) == IF cs # <<>> /\ cs[1] = "-" THEN Tail(cs) ELSE cs

\* cs is a thousands-separated integer: digits, a comma before every group
\* of three and nowhere else, no leading zero, no "-0".
IsThousands(cs) ==
    LET d == Unsigned(cs)
    IN  /\ d # <<>>
        /\ \A k \in DOMAIN d :
              IF (Len(d) - k + 1) % 4 = 0 THEN d[k] = "," ELSE IsDigit(d[k])
        /\ d[1] = "0" => cs = <<"0">>

RECURSIVE DigitsValue(_)
DigitsValue(d) ==
    IF d = <<>> THEN 0
    ELSE IF d[Len(d)] = "," THEN DigitsValue(SubSeq(d, 1, Len(d) - 1))
    ELSE 10 * DigitsValue(SubSeq(d, 1, Len(d) - 1)) + DigitValue(d[Len(d)])

ParseInt(cs) == IF cs[1] = "-" THEN -DigitsValue(Unsigned(cs)) ELSE DigitsValue(cs)

\* C2: a call on an exchange named wallex goes to the Wallex platform, one
\* named bitpin to the Bitpin platform, and any other name ends in the
\* error "Exchange name is not valid" with no platform call at all, for
\* price and for cache_all_prices alike.
C2_Dispatch ==
    lastOp.method # "" =>
        /\ lastOp.name \in {"wallex", "bitpin"} =>
              /\ ~IsErr(lastOp.r)
              /\ lastCall.platform = lastOp.name
              /\ lastCall.method = IF lastOp.method = "price" THEN "get_price"
                                   ELSE "cache_all_prices"
        /\ lastOp.name \notin {"wallex", "bitpin"} =>
              /\ lastOp.r = ErrR("Exchange name is not valid")
              /\ lastCall = NoCall

\* cache_all_prices was called on an exchange of another name.
C2_Witness ==
    /\ lastOp.name = "kraken"
    /\ lastOp.method = "cache_all_prices"
    /\ IsErr(lastOp.r)

\* What a property shows for the price p0 of the snapshot.
Expected(prop, p0) ==
    LET cv == Trunc(p0 * t.quantity, S2)
        tp == TotalPrice(t)
    IN  CASE prop = "current_price" -> DecR(p0)
          [] prop = "get_current_value" -> IntR(cv)
          [] prop = "get_current_value_admin" -> StrR(Commas(cv))
          [] prop = "get_current_price" ->
                IF t.market = Some("irt") THEN StrR(Commas(Trunc(p0, Scale)))
                ELSE Float2R(RoundHalfEven(p0 * 100, Scale))
          [] prop = "get_profit_or_loss" -> StrR(Commas(cv - tp))
          [] prop = "get_change_percentage" ->
                IF tp = 0 THEN IntR(0) ELSE PercentOf(cv - tp, tp)

NeedsNoPrice(prop) ==
    t.type = "sell" /\ prop \in {"get_profit_or_loss", "get_change_percentage"}

\* C8: the instance goes to a platform for its price at most once, and every
\* property read that gives a value gives the one derived from the price of
\* that one fetch, whatever the market and the exchanges did since.
C8_OneSnapshot ==
    /\ fetches <= 1
    /\ (lastRead.prop # "" /\ ~IsErr(lastRead.r)) =>
          IF NeedsNoPrice(lastRead.prop) THEN lastRead.r = StrR(<<"-">>)
          ELSE /\ snapshot # None
               /\ lastRead.r = Expected(lastRead.prop, Val(snapshot).price)

\* The platform reports another price than the one fetched, and a later
\* read of the displayed price made no fetch.
C8_Witness ==
    /\ snapshot # None
    /\ quote[Val(snapshot).newest] # None
    /\ Val(quote[Val(snapshot).newest]) # Val(snapshot).price
    /\ lastRead.prop = "get_current_price"
    /\ ~lastRead.fetched
    /\ ~IsErr(lastRead.r)

\* C9: the price fetched is the one the exchange stored last reported for the
\* transaction's coin and market, 0 when it reported None or 0; then the
\* current value is 0 and the profit or loss of a non-sell transaction is
\* minus its total price.
C9_NewestExchangePrice ==
    snapshot # None =>
        LET sn == Val(snapshot)
            none == sn.reported = None \/ sn.reported = Some(0)
        IN  /\ sn.asked.platform = sn.newest
            /\ sn.asked.coin = Some(t.coin)
            /\ sn.asked.market = t.market
            /\ sn.price = IF none THEN 0 ELSE Val(sn.reported)
            /\ cache.current_price = Some(sn.price)
            /\ none =>
                  /\ lastRead.prop = "current_price" => lastRead.r = DecR(0)
                  /\ lastRead.prop = "get_current_value" => lastRead.r = IntR(0)
                  /\ (lastRead.prop = "get_profit_or_loss" /\ t.type # "sell") =>
                        lastRead.r = StrR(Commas(-TotalPrice(t)))

\* Two exchanges of different names were stored when the price was fetched,
\* the newer reported None, and the profit or loss was read.
C9_Witness ==
    /\ snapshot # None
    /\ Val(snapshot).stored = 2
    /\ Val(snapshot).oldest # Val(snapshot).newest
    /\ Val(snapshot).reported = None
    /\ t.type = "buy"
    /\ lastRead.prop = "get_profit_or_loss"
    /\ lastRead.r = StrR(Commas(-TotalPrice(t)))

\* C4: get_profit_or_loss of a sell is "-" and fetches no price; of any other
\* transaction it is the thousands-separated current value minus total price,
\* both truncated toward zero, negative exactly when the current value is
\* below the total price.
C4_ProfitOrLoss ==
    lastRead.prop = "get_profit_or_loss" =>
        IF t.type = "sell" THEN lastRead.r = StrR(<<"-">>) /\ ~lastRead.fetched
        ELSE /\ lastRead.r.kind = "str"
             /\ snapshot # None
             /\ IsThousands(lastRead.r.s)
             /\ LET tp == TotalPrice(t)
                    cv == ParseInt(lastRead.r.s) + tp
                IN  /\ IsTrunc(tp, t.price * t.quantity, S2)
                    /\ IsTrunc(cv, Val(snapshot).price * t.quantity, S2)
                    /\ (lastRead.r.s[1] = "-") <=> (cv < tp)

\* A buy is shown at a loss of more than a thousand.
C4_Witness ==
    /\ lastRead.prop = "get_profit_or_loss"
    /\ t.type = "buy"
    /\ lastRead.r.kind = "str"
    /\ lastRead.r.s[1] = "-"
    /\ \E k \in DOMAIN lastRead.r.s : lastRead.r.s[k] = ","

\* C5: get_change_percentage never divides by zero: "-" for a sell, 0 when
\* the truncated total price is 0, otherwise the change over the total price
\* in percent, to the nearest hundredth.
C5_ChangePercentage ==
    lastRead.prop = "get_change_percentage" =>
        LET tp == TotalPrice(t)
            r == lastRead.r
        IN  /\ r.msg # "ZeroDivisionError"
            /\ IsTrunc(tp, t.price * t.quantity, S2)
            /\ IF t.type = "sell" THEN r = StrR(<<"-">>)
               ELSE IF tp = 0 THEN r = IntR(0)
               ELSE /\ r.kind = "float2"
                    /\ snapshot # None
                    /\ LET cv == Trunc(Val(snapshot).price * t.quantity, S2)
                       IN  2 * Abs(r.n * tp - (cv - tp) * 10000) <= Abs(tp)

\* Price and quantity are not zero, their product is below 1, and the change
\* shown is 0.
C5_Witness ==
    /\ lastRead.prop = "get_change_percentage"
    /\ t.type = "buy"
    /\ t.price # 0 /\ t.quantity # 0
    /\ TotalPrice(t) = 0
    /\ lastRead.r = IntR(0)

\* ---------------------------------------- claims about construct_platform_id
SameComponents(a, b) ==
    /\ a.jdate = b.jdate /\ a.code = b.code /\ a.market = b.market
    /\ a.type = b.type /\ a.quantity = b.quantity /\ a.price = b.price

\* C6: two transactions get the same id exactly when they agree on jdate,
\* coin code, market, type, quantity and price.
C6_UniqueId ==
    (ids # <<>> /\ ~IsErr(ids[1]) /\ ~IsErr(ids[2])) =>
        ((ids[1] = ids[2]) <=> SameComponents(pair[1], pair[2]))

\* C10: construct_platform_id gives, for every transaction the schema admits,
\* a lower-case string of six components and never an error.
C10_AlwaysAString ==
    ids # <<>> =>
        \A k \in DOMAIN ids :
            /\ ~IsErr(ids[k])
            /\ ids[k].kind = "str"
            /\ ids[k].s = Lower(ids[k].s)
            /\ Cardinality({j \in DOMAIN ids[k].s : ids[k].s[j] = "|"}) = 5

====
